---- MODULE Spec2Model ----
(***************************************************************************)
(* A model of the RAG-pipeline core: the ChromaConnector vector store      *)
(* (src/src/database/chroma_connector/connector.py) and the TextChunker    *)
(* (src/src/chunker/text_chunker.py).                                      *)
(*                                                                         *)
(* The store is modelled together with the part of the chromadb engine it  *)
(* calls (a persistent set of named collections); the chunker together     *)
(* with the part of langchain's CharacterTextSplitter it calls.            *)
(***************************************************************************)
EXTENDS Integers, Sequences, FiniteSets, TLC

(***************************************************************************)
(* Bounds of the model.                                                    *)
(***************************************************************************)
MaxBatch == 2        \* longest chunks / embeddings / metadata list passed to add_to_collection
MaxDim == 2          \* widest embedding vector
MaxK == 2            \* largest k passed to search_similar
MaxCollIds == 2      \* engine collections created during one behaviour

Names == {"a", "b"}
NameOrder == <<"a", "b">>
Components == {1}

None == "None"
Client == "PersistentClient"

Vectors == UNION {[1..w -> Components] : w \in 1..MaxDim}
EmbeddingLists == UNION {[1..n -> Vectors] : n \in 0..MaxBatch}
ChunkLists == {[i \in 1..n |-> "text"] : n \in 0..MaxBatch}
MetadataLists == {[i \in 1..n |-> "meta"] : n \in 0..MaxBatch}

VARIABLES
    client,         \* ChromaConnector.client: None or the engine client
    collections,    \* ChromaConnector.collections: name -> cached collection handle
    engine,         \* the engine's persisted collections: name -> [id, records]
    nextCollId,     \* the engine's next collection id
    lastCall,       \* the call last made on the connector, with its arguments
    result,         \* how that call ended: "ok" or the exception raised
    returned        \* the value it returned (<<>> when it raised or returns None)

storeVars == <<client, collections, engine, nextCollId, lastCall, result, returned>>

(***************************************************************************)
(* The attributes an instance of ChromaConnector has: the ones __init__    *)
(* assigns and the methods of the class.  Reading any other attribute of   *)
(* self raises AttributeError.                                             *)
(***************************************************************************)
ConnectorAttributes ==
    {"persist_directory", "client", "collections",
     "connect", "disconnect", "create_collection", "drop_collection",
     "list_collections", "get_collection", "add_to_collection", "search_similar"}

HasAttr(attr) == attr \in ConnectorAttributes

(***************************************************************************)
(* The engine: a persistent set of named collections, each [id, records].  *)
(***************************************************************************)
\* client.list_collections(): the names of the existing collections
EngineListCollections == SelectSeq(NameOrder, LAMBDA n : n \in DOMAIN engine)

Range(s) == {s[i] : i \in DOMAIN s}

\* dict[name] = value
DictSet(d, name, value) == [n \in DOMAIN d \cup {name} |-> IF n = name THEN value ELSE d[n]]

\* dict.pop(name, None)
DictPop(d, name) == [n \in DOMAIN d \ {name} |-> d[n]]

EmptyDict == [n \in {} |-> 0]

\* the directories the store can be opened on: each name absent, or present
\* and empty, or present with one record of width 1 or 2
PersistedRecords ==
    {<<>>, <<[id |-> 1, embedding |-> <<1>>]>>, <<[id |-> 2, embedding |-> <<1, 1>>]>>}

\* the id of a collection an earlier run created: not one this run hands out
PersistedId(name) == IF name = "a" THEN -1 ELSE -2

PersistedEngines ==
    UNION {[S -> PersistedRecords] : S \in SUBSET Names}

Call(op, name, chunks, embeddings, metadata, query, k) ==
    [op |-> op, name |-> name, chunks |-> chunks, embeddings |-> embeddings,
     metadata |-> metadata, query |-> query, k |-> k]

NoArgsCall(op) == Call(op, None, <<>>, <<>>, <<>>, <<>>, 0)
NameCall(op, name) == Call(op, name, <<>>, <<>>, <<>>, <<>>, 0)

\* the call ends by raising exc (after logging): nothing is returned
Raise(exc) == result' = exc /\ returned' = <<>>

\* the call returns value
Return(value) == result' = "ok" /\ returned' = value

StoreInit ==
    /\ client = None
    /\ collections = EmptyDict
    /\ \E p \in PersistedEngines :
          engine = [n \in DOMAIN p |-> [id |-> PersistedId(n), records |-> p[n]]]
    /\ nextCollId = 1
    /\ lastCall = NoArgsCall("__init__")
    /\ result = "ok"
    /\ returned = <<>>

(***************************************************************************)
(* connect(): opens the engine on persist_directory; the engine may raise, *)
(* and then self.client keeps its value.                                   *)
(***************************************************************************)
Connect ==
    /\ lastCall' = NoArgsCall("connect")
    /\ \E opened \in BOOLEAN :
          IF opened
          THEN client' = Client /\ Return(<<>>)
          ELSE client' = client /\ Raise("EngineError")
    /\ UNCHANGED <<collections, engine, nextCollId>>

\* disconnect that drops the client but keeps the cached handles
DisconnectKeepCache ==
    /\ lastCall' = NoArgsCall("disconnect")
    /\ client' = None
    /\ Return(<<>>)
    /\ UNCHANGED <<collections, engine, nextCollId>>

Disconnect ==
    /\ lastCall' = NoArgsCall("disconnect")
    /\ client' = None
    /\ collections' = EmptyDict
    /\ Return(<<>>)
    /\ UNCHANGED <<engine, nextCollId>>

\* client.create_collection(name) on a name the engine does not hold
EngineCreate(name) ==
    /\ engine' = DictSet(engine, name, [id |-> nextCollId, records |-> <<>>])
    /\ nextCollId' = nextCollId + 1

\* create_collection without the test for an existing collection: the
\* engine's create_collection raises on a name it already holds
CreateCollectionNoCheck(name) ==
    /\ lastCall' = NameCall("create_collection", name)
    /\ IF client = None
       THEN /\ Raise("ConnectionError")
            /\ UNCHANGED <<client, collections, engine, nextCollId>>
       ELSE IF name \in DOMAIN engine
       THEN /\ Raise("EngineError")
            /\ UNCHANGED <<client, collections, engine, nextCollId>>
       ELSE /\ nextCollId <= MaxCollIds
            /\ EngineCreate(name)
            /\ collections' = DictSet(collections, name, [id |-> nextCollId])
            /\ Return(<<>>)
            /\ UNCHANGED client

CreateCollection(name) ==
    /\ lastCall' = NameCall("create_collection", name)
    /\ IF client = None
       THEN /\ Raise("ConnectionError")
            /\ UNCHANGED <<client, collections, engine, nextCollId>>
       ELSE IF name \in Range(EngineListCollections)
       THEN /\ Return(<<>>)
            /\ UNCHANGED <<client, collections, engine, nextCollId>>
       ELSE /\ nextCollId <= MaxCollIds
            /\ EngineCreate(name)
            /\ collections' = DictSet(collections, name, [id |-> nextCollId])
            /\ Return(<<>>)
            /\ UNCHANGED client

\* drop_collection that leaves the cached handle in place
DropCollectionKeepHandle(name) ==
    /\ lastCall' = NameCall("drop_collection", name)
    /\ IF client = None
       THEN /\ Raise("ConnectionError")
            /\ UNCHANGED <<client, collections, engine, nextCollId>>
       ELSE IF name \notin DOMAIN engine
       THEN /\ Raise("EngineError")
            /\ UNCHANGED <<client, collections, engine, nextCollId>>
       ELSE /\ engine' = DictPop(engine, name)
            /\ Return(<<>>)
            /\ UNCHANGED <<client, collections, nextCollId>>

\* drop_collection that swallows the engine's error for a missing collection
DropCollectionIgnoreMissing(name) ==
    /\ lastCall' = NameCall("drop_collection", name)
    /\ IF client = None
       THEN /\ Raise("ConnectionError")
            /\ UNCHANGED <<client, collections, engine, nextCollId>>
       ELSE /\ engine' = DictPop(engine, name)
            /\ collections' = DictPop(collections, name)
            /\ Return(<<>>)
            /\ UNCHANGED <<client, nextCollId>>

\* client.delete_collection(name): raises when the engine holds no such collection
DropCollection(name) ==
    /\ lastCall' = NameCall("drop_collection", name)
    /\ IF client = None
       THEN /\ Raise("ConnectionError")
            /\ UNCHANGED <<client, collections, engine, nextCollId>>
       ELSE IF name \notin DOMAIN engine
       THEN /\ Raise("EngineError")
            /\ UNCHANGED <<client, collections, engine, nextCollId>>
       ELSE /\ engine' = DictPop(engine, name)
            /\ collections' = DictPop(collections, name)
            /\ Return(<<>>)
            /\ UNCHANGED <<client, nextCollId>>

\* list_collections without the connection test
ListCollectionsNoGuard ==
    /\ lastCall' = NoArgsCall("list_collections")
    /\ Return(EngineListCollections)
    /\ UNCHANGED <<client, collections, engine, nextCollId>>

ListCollections ==
    /\ lastCall' = NoArgsCall("list_collections")
    /\ IF client = None
       THEN Raise("ConnectionError")
       ELSE Return(EngineListCollections)
    /\ UNCHANGED <<client, collections, engine, nextCollId>>

(***************************************************************************)
(* get_collection(name): the public helper.  It does not test self.client: *)
(* on a store that is not connected the cache is empty, so the call        *)
(* reaches self.client.get_or_create_collection on None.                   *)
(***************************************************************************)
GetCollection(name) ==
    /\ lastCall' = NameCall("get_collection", name)
    /\ IF name \in DOMAIN collections
       THEN /\ Return(<<collections[name]>>)
            /\ UNCHANGED <<client, collections, engine, nextCollId>>
       ELSE IF client = None
       THEN /\ Raise("AttributeError")
            /\ UNCHANGED <<client, collections, engine, nextCollId>>
       ELSE IF name \in DOMAIN engine
       THEN /\ collections' = DictSet(collections, name, [id |-> engine[name].id])
            /\ Return(<<[id |-> engine[name].id]>>)
            /\ UNCHANGED <<client, engine, nextCollId>>
       ELSE /\ nextCollId <= MaxCollIds
            /\ EngineCreate(name)
            /\ collections' = DictSet(collections, name, [id |-> nextCollId])
            /\ Return(<<[id |-> nextCollId]>>)
            /\ UNCHANGED client

(***************************************************************************)
(* add_to_collection: after the connection test the first statement reads  *)
(* self._get_collection, which the class does not define (the helper is    *)
(* get_collection); the AttributeError is logged and re-raised, so the     *)
(* statements after it (id generation, collection.add) never run.          *)
(***************************************************************************)
AddToCollection(name, chunks, embeddings, metadata) ==
    /\ lastCall' = Call("add_to_collection", name, chunks, embeddings, metadata, <<>>, 0)
    /\ IF client = None
       THEN Raise("ConnectionError")
       ELSE /\ ~HasAttr("_get_collection")
            /\ Raise("AttributeError")
    /\ UNCHANGED <<client, collections, engine, nextCollId>>

(***************************************************************************)
(* search_similar: likewise stops at self._get_collection (the statement   *)
(* after it reads self._collection_dimensions, which nothing defines or    *)
(* fills), so the width test, the query and the formatting never run.      *)
(***************************************************************************)
SearchSimilar(name, query, k) ==
    /\ lastCall' = Call("search_similar", name, <<>>, <<>>, <<>>, query, k)
    /\ IF client = None
       THEN Raise("ConnectionError")
       ELSE /\ ~HasAttr("_get_collection")
            /\ Raise("AttributeError")
    /\ UNCHANGED <<client, collections, engine, nextCollId>>

StoreNext ==
    \/ Connect
    \/ Disconnect
    \/ \E name \in Names : CreateCollection(name)
    \/ \E name \in Names : DropCollection(name)
    \/ ListCollections
    \/ \E name \in Names : GetCollection(name)
    \/ \E name \in Names, chunks \in ChunkLists, embeddings \in EmbeddingLists,
          metadata \in MetadataLists :
          AddToCollection(name, chunks, embeddings, metadata)
    \/ \E name \in Names, query \in Vectors, k \in 1..MaxK :
          SearchSimilar(name, query, k)

(***************************************************************************)
(* The chunker.  Text is a sequence of characters.                         *)
(***************************************************************************)
MaxContentLen == 5   \* longest document content
MaxChunkSize == 3    \* largest chunk_size given to the constructor or as an override
MaxOverlap == 2      \* largest chunk_overlap given to the constructor or as an override

NL == "\n"
Alphabet == {"a", NL}
Whitespace == {NL, " "}
\* the separator is an argument of the constructor
Separators == {<<NL>>}

Contents == UNION {[1..n -> Alphabet] : n \in 0..MaxContentLen}

\* an Optional[int] argument that is None, an attribute that is not set
NoInt == -1

\* Optional[str] doc_id: None is the empty tuple, a string is its characters
NoId == <<>>
Digits == <<"0", "1", "2", "3", "4", "5", "6", "7", "8", "9">>

\* str(i), for the chunk indexes of the model
Str(i) == IF i < 10 THEN <<Digits[i + 1]>> ELSE <<Digits[(i \div 10) + 1], Digits[(i % 10) + 1]>>

NoMetadata == [k \in {} |-> 0]
LoadedMetadata == [k \in {"source", "chunk_index"} |-> IF k = "source" THEN 100 ELSE 9]

\* the metadata and doc_id a caller's document comes with
DocumentShapes == {<<NoMetadata, NoId>>, <<LoadedMetadata, <<"d">>>>}

\* Document(content, metadata, doc_id)
Document(content, metadata, doc_id) ==
    [content |-> content, metadata |-> metadata, doc_id |-> doc_id]

Documents == {Document(c, s[1], s[2]) : c \in Contents, s \in DocumentShapes}

VARIABLES
    chunker,          \* "new" before TextChunker(...), then "ready", or "failed" when __init__ raised
    text_splitter,    \* TextChunker.text_splitter: the attributes of the CharacterTextSplitter
    add_start_index,  \* TextChunker.add_start_index
    ctorArgs,         \* the chunk_size and chunk_overlap given to TextChunker(...)
    document,         \* the caller's Document
    overrides,        \* the chunk_size and chunk_overlap arguments of the last create_chunks call
    chunkResult,      \* how the last create_chunks call ended
    chunked_docs      \* the list it returned

chunkerVars == <<chunker, text_splitter, add_start_index, ctorArgs, document,
                 overrides, chunkResult, chunked_docs>>

SubSeqFrom(text, i) == SubSeq(text, i, Len(text))

\* str.find(sub): the 0-based offset of the first occurrence of sub in text, or -1
Find(text, sub) ==
    LET hits == {i \in 0..(Len(text) - Len(sub)) : SubSeq(text, i + 1, i + Len(sub)) = sub}
    IN  IF hits = {} THEN -1 ELSE CHOOSE i \in hits : \A j \in hits : i <= j

\* re.split(re.escape(separator), text): the pieces between the leftmost
\* non-overlapping occurrences of separator, empty pieces included
RECURSIVE ReSplit(_, _)
ReSplit(text, separator) ==
    LET at == Find(text, separator)
    IN  IF at = -1
        THEN <<text>>
        ELSE <<SubSeq(text, 1, at)>> \o ReSplit(SubSeqFrom(text, at + Len(separator) + 1), separator)

\* _split_text_with_regex without keep_separator: the non-empty pieces
SplitTextWithRegex(text, separator) ==
    SelectSeq(ReSplit(text, separator), LAMBDA s : s # <<>>)

\* separator.join(docs)
RECURSIVE Join(_, _)
Join(docs, separator) ==
    IF Len(docs) = 0 THEN <<>>
    ELSE IF Len(docs) = 1 THEN docs[1]
    ELSE docs[1] \o separator \o Join(Tail(docs), separator)

RECURSIVE LStrip(_)
LStrip(text) ==
    IF Len(text) > 0 /\ text[1] \in Whitespace THEN LStrip(Tail(text)) ELSE text

RECURSIVE RStrip(_)
RStrip(text) ==
    IF Len(text) > 0 /\ text[Len(text)] \in Whitespace
    THEN RStrip(SubSeq(text, 1, Len(text) - 1))
    ELSE text

\* str.strip()
Strip(text) == RStrip(LStrip(text))

\* _join_docs without the strip
AppendJoinedUnstripped(docs, current_doc, separator) ==
    LET text == Join(current_doc, separator)
    IN  IF text = <<>> THEN docs ELSE Append(docs, text)

\* _join_docs: the joined, stripped text, appended to docs unless it is empty
AppendJoined(docs, current_doc, separator) ==
    LET text == Strip(Join(current_doc, separator))
    IN  IF text = <<>> THEN docs ELSE Append(docs, text)

\* a splitter that reads the attribute chunk_size once it has been assigned
SplitterChunkSizeAssigned(splitter) ==
    IF splitter.chunk_size # NoInt THEN splitter.chunk_size ELSE splitter._chunk_size

\* a size test that lets a chunk grow one unit past chunk_size
SplitterChunkSizeLoose(splitter) == splitter._chunk_size + 1

\* the chunk size and overlap split_text works with: CharacterTextSplitter
\* keeps what its constructor was given in _chunk_size and _chunk_overlap
SplitterChunkSize(splitter) == splitter._chunk_size

\* an overlap test that keeps one unit more than chunk_overlap
SplitterChunkOverlapLoose(splitter) == splitter._chunk_overlap + 1

SplitterChunkOverlap(splitter) == splitter._chunk_overlap

\* the inner loop of _merge_splits: drop leading pieces of current_doc while
\* it is longer than the overlap, or too long to take the next piece
RECURSIVE PopOverlap(_, _, _, _, _, _)
PopOverlap(current_doc, total, len, seplen, size, overlap) ==
    IF \/ total > overlap
       \/ (total + len + (IF Len(current_doc) > 0 THEN seplen ELSE 0) > size /\ total > 0)
    THEN PopOverlap(Tail(current_doc),
                    total - (Len(current_doc[1]) + (IF Len(current_doc) > 1 THEN seplen ELSE 0)),
                    len, seplen, size, overlap)
    ELSE [current_doc |-> current_doc, total |-> total]

\* _merge_splits from piece i on, with the loop's docs, current_doc and total
RECURSIVE MergeFrom(_, _, _, _, _, _, _)
MergeFrom(splits, i, docs, current_doc, total, separator, splitter) ==
    IF i > Len(splits)
    THEN AppendJoined(docs, current_doc, separator)
    ELSE LET d == splits[i]
             len == Len(d)
             seplen == Len(separator)
             size == SplitterChunkSize(splitter)
             overlap == SplitterChunkOverlap(splitter)
             full == total + len + (IF Len(current_doc) > 0 THEN seplen ELSE 0) > size
             closing == full /\ Len(current_doc) > 0
             docs1 == IF closing THEN AppendJoined(docs, current_doc, separator) ELSE docs
             kept == IF closing
                     THEN PopOverlap(current_doc, total, len, seplen, size, overlap)
                     ELSE [current_doc |-> current_doc, total |-> total]
             current1 == Append(kept.current_doc, d)
             total1 == kept.total + len + (IF Len(current1) > 1 THEN seplen ELSE 0)
         IN  MergeFrom(splits, i + 1, docs1, current1, total1, separator, splitter)

MergeSplits(splits, separator, splitter) ==
    MergeFrom(splits, 1, <<>>, <<>>, 0, separator, splitter)

\* CharacterTextSplitter.split_text
SplitText(splitter, text) ==
    MergeSplits(SplitTextWithRegex(text, splitter._separator), splitter._separator, splitter)

\* a merge in which the keys the metadata already has win
MetadataUpdateKeepExisting(metadata, items) ==
    [k \in DOMAIN metadata \cup DOMAIN items |-> IF k \in DOMAIN metadata THEN metadata[k] ELSE items[k]]

\* dict.update on a copy of metadata
MetadataUpdate(metadata, items) ==
    [k \in DOMAIN metadata \cup DOMAIN items |-> IF k \in DOMAIN items THEN items[k] ELSE metadata[k]]

ChunkIndexItems(i, total) ==
    [k \in {"chunk_index", "total_chunks"} |-> IF k = "chunk_index" THEN i ELSE total]

StartIndexItems(start) == [k \in {"chunk_start_index"} |-> start]

\* the Document create_chunks builds for chunk i (0-based) of chunk_texts
ChunkDoc(doc, chunk_texts, i, asi) ==
    LET chunk_text == chunk_texts[i + 1]
        indexed == MetadataUpdate(doc.metadata, ChunkIndexItems(i, Len(chunk_texts)))
        chunk_metadata ==
            IF asi
            THEN MetadataUpdate(indexed, StartIndexItems(Find(doc.content, chunk_text)))
            ELSE indexed
    IN  Document(chunk_text, chunk_metadata,
                 IF doc.doc_id # NoId THEN doc.doc_id \o <<"_chunk_">> \o Str(i) ELSE NoId)

\* the list create_chunks returns for doc when the splitter is in state splitter
ChunkedDocs(splitter, doc, asi) ==
    LET chunk_texts == SplitText(splitter, doc.content)
    IN  [j \in 1..Len(chunk_texts) |-> ChunkDoc(doc, chunk_texts, j - 1, asi)]

NoSplitter == [_separator |-> <<>>, _chunk_size |-> NoInt, _chunk_overlap |-> NoInt,
               chunk_size |-> NoInt, chunk_overlap |-> NoInt]

\* CharacterTextSplitter(separator, chunk_size, chunk_overlap): the constructor
\* keeps its arguments in _separator, _chunk_size and _chunk_overlap; the
\* object has no attribute chunk_size or chunk_overlap until one is assigned
CharacterTextSplitter(separator, chunk_size, chunk_overlap) ==
    [_separator |-> separator, _chunk_size |-> chunk_size, _chunk_overlap |-> chunk_overlap,
     chunk_size |-> NoInt, chunk_overlap |-> NoInt]

NoArgs == [chunk_size |-> NoInt, chunk_overlap |-> NoInt]

ChunkerInit ==
    /\ chunker = "new"
    /\ text_splitter = NoSplitter
    /\ add_start_index = FALSE
    /\ ctorArgs = NoArgs
    /\ document \in Documents
    /\ overrides = NoArgs
    /\ chunkResult = "ok"
    /\ chunked_docs = <<>>

(***************************************************************************)
(* TextChunker(chunk_size, chunk_overlap, separator, len, add_start_index):*)
(* CharacterTextSplitter(...) raises ValueError when chunk_overlap is      *)
(* larger than chunk_size, and then no chunker exists.                     *)
(***************************************************************************)
TextChunkerInit(chunk_size, chunk_overlap, separator, asi) ==
    /\ chunker = "new"
    /\ ctorArgs' = [chunk_size |-> chunk_size, chunk_overlap |-> chunk_overlap]
    /\ IF chunk_overlap > chunk_size
       THEN /\ chunker' = "failed"
            /\ chunkResult' = "ValueError"
            /\ UNCHANGED <<text_splitter, add_start_index>>
       ELSE /\ chunker' = "ready"
            /\ chunkResult' = "ok"
            /\ text_splitter' = CharacterTextSplitter(separator, chunk_size, chunk_overlap)
            /\ add_start_index' = asi
    /\ UNCHANGED <<document, overrides, chunked_docs>>

(***************************************************************************)
(* create_chunks(document, chunk_size, chunk_overlap): an override is      *)
(* assigned to the attribute chunk_size / chunk_overlap of the splitter,   *)
(* then the content is split and one Document is built per chunk.          *)
(***************************************************************************)
CreateChunks(chunk_size, chunk_overlap) ==
    /\ chunker = "ready"
    /\ overrides' = [chunk_size |-> chunk_size, chunk_overlap |-> chunk_overlap]
    /\ text_splitter' =
          [text_splitter EXCEPT
              !.chunk_size = IF chunk_size # NoInt THEN chunk_size ELSE @,
              !.chunk_overlap = IF chunk_overlap # NoInt THEN chunk_overlap ELSE @]
    /\ chunked_docs' = ChunkedDocs(text_splitter', document, add_start_index)
    /\ chunkResult' = "ok"
    /\ UNCHANGED <<chunker, add_start_index, ctorArgs, document>>

ChunkerNext ==
    \/ \E chunk_size \in 1..MaxChunkSize, chunk_overlap \in 0..MaxOverlap,
          separator \in Separators, asi \in BOOLEAN :
          TextChunkerInit(chunk_size, chunk_overlap, separator, asi)
    \/ \E chunk_size \in {NoInt} \cup 1..MaxChunkSize,
          chunk_overlap \in {NoInt} \cup 0..MaxOverlap :
          CreateChunks(chunk_size, chunk_overlap)

(***************************************************************************)
(* The split as a function of the document and the configuration: the      *)
(* chunker is constructed once and create_chunks is called without         *)
(* overrides, on documents that also hold spaces and with both a one- and  *)
(* a two-character separator.                                              *)
(***************************************************************************)
MaxSplitLen == 5     \* longest document content split under SplitSpec

SplitAlphabet == Alphabet \cup {" "}
SplitSeparators == {<<NL>>, <<NL, NL>>}

\* the document of the scenario "AAAA\n\nBBBB\n\nCCCC", split with chunk_size 9
ScenarioContent ==
    <<"A", "A", "A", "A", NL, NL, "B", "B", "B", "B", NL, NL, "C", "C", "C", "C">>
ScenarioChunkSizes == {9}

SplitContents == UNION {[1..n -> SplitAlphabet] : n \in 0..MaxSplitLen} \cup {ScenarioContent}
SplitDocuments == {Document(c, LoadedMetadata, <<"d">>) : c \in SplitContents}

SplitInit ==
    /\ chunker = "new"
    /\ text_splitter = NoSplitter
    /\ add_start_index = FALSE
    /\ ctorArgs = NoArgs
    /\ document \in SplitDocuments
    /\ overrides = NoArgs
    /\ chunkResult = "ok"
    /\ chunked_docs = <<>>

SplitNext ==
    \/ \E chunk_size \in 1..MaxChunkSize \cup ScenarioChunkSizes, chunk_overlap \in 0..MaxOverlap,
          separator \in SplitSeparators, asi \in BOOLEAN :
          TextChunkerInit(chunk_size, chunk_overlap, separator, asi)
    \/ CreateChunks(NoInt, NoInt)

(***************************************************************************)
(* DocumentProcessor.add_metadata(doc, additional_metadata): updates the   *)
(* metadata dict of doc in place and returns doc itself, so the caller's   *)
(* Document is the Document returned.                                      *)
(***************************************************************************)
AdditionalMetadatas == {[k \in {"source"} |-> 200], [k \in {"author"} |-> 7]}

AddMetadata(additional_metadata) ==
    /\ document' = [document EXCEPT !.metadata = MetadataUpdate(@, additional_metadata)]
    /\ UNCHANGED <<chunker, text_splitter, add_start_index, ctorArgs, overrides,
                   chunkResult, chunked_docs>>

ProcessorNext ==
    \/ \E chunk_size \in 1..MaxChunkSize, chunk_overlap \in 0..MaxOverlap,
          separator \in Separators, asi \in BOOLEAN :
          TextChunkerInit(chunk_size, chunk_overlap, separator, asi)
    \/ CreateChunks(NoInt, NoInt)
    \/ \E additional_metadata \in AdditionalMetadatas : AddMetadata(additional_metadata)

(***************************************************************************)
(* Two callers of create_chunks on one shared TextChunker.  A call is the  *)
(* steps of its code in order: the override of chunk_size is assigned      *)
(* (lines 60-61), the override of chunk_overlap is assigned (lines 62-63), *)
(* then the content is split and the chunks are built from the call's own  *)
(* locals (lines 66-92).  The steps of the two calls interleave freely;    *)
(* the splitter is the only object they share.                             *)
(***************************************************************************)
Threads == {1, 2}

ConcContents == {<<"a", NL, "a">>, <<"a", NL, "a", NL, "a">>}
ConcDocuments == {Document(c, NoMetadata, NoId) : c \in ConcContents}

VARIABLES
    calls            \* per caller: where its create_chunks call is, its arguments, what it returned

concVars == <<calls>>

NoCall == [pc |-> "idle", document |-> Document(<<>>, NoMetadata, NoId),
           chunk_size |-> NoInt, chunk_overlap |-> NoInt, chunked_docs |-> <<>>]

ConcIdle == calls = [t \in Threads |-> NoCall]

\* create_chunks(document, chunk_size, chunk_overlap) is entered by caller t
EnterCreateChunks(t, doc, chunk_size, chunk_overlap) ==
    /\ chunker = "ready"
    /\ calls[t].pc = "idle"
    /\ calls' = [calls EXCEPT ![t] = [pc |-> "size", document |-> doc,
                                      chunk_size |-> chunk_size,
                                      chunk_overlap |-> chunk_overlap,
                                      chunked_docs |-> <<>>]]
    /\ UNCHANGED chunkerVars

\* lines 60-61: if chunk_size: self.text_splitter.chunk_size = chunk_size
AssignChunkSize(t) ==
    /\ calls[t].pc = "size"
    /\ text_splitter' =
          IF calls[t].chunk_size # NoInt
          THEN [text_splitter EXCEPT !.chunk_size = calls[t].chunk_size]
          ELSE text_splitter
    /\ calls' = [calls EXCEPT ![t].pc = "overlap"]
    /\ UNCHANGED <<chunker, add_start_index, ctorArgs, document, overrides,
                   chunkResult, chunked_docs>>

\* lines 62-63: if chunk_overlap: self.text_splitter.chunk_overlap = chunk_overlap
AssignChunkOverlap(t) ==
    /\ calls[t].pc = "overlap"
    /\ text_splitter' =
          IF calls[t].chunk_overlap # NoInt
          THEN [text_splitter EXCEPT !.chunk_overlap = calls[t].chunk_overlap]
          ELSE text_splitter
    /\ calls' = [calls EXCEPT ![t].pc = "split"]
    /\ UNCHANGED <<chunker, add_start_index, ctorArgs, document, overrides,
                   chunkResult, chunked_docs>>

\* lines 66-92: split_text on the shared splitter as it is now, then the
\* chunk Documents from the call's own document
SplitAndBuild(t) ==
    /\ calls[t].pc = "split"
    /\ calls' = [calls EXCEPT
                    ![t].pc = "done",
                    ![t].chunked_docs =
                        ChunkedDocs(text_splitter, calls[t].document, add_start_index)]
    /\ UNCHANGED chunkerVars

ConcNext ==
    \/ /\ \E chunk_size \in 1..MaxChunkSize, chunk_overlap \in 0..MaxOverlap,
            separator \in Separators :
            TextChunkerInit(chunk_size, chunk_overlap, separator, FALSE)
       /\ UNCHANGED concVars
    \/ \E t \in Threads, doc \in ConcDocuments,
          chunk_size \in {NoInt} \cup 1..MaxChunkSize,
          chunk_overlap \in {NoInt} \cup 0..MaxOverlap :
          EnterCreateChunks(t, doc, chunk_size, chunk_overlap)
    \/ \E t \in Threads : AssignChunkSize(t)
    \/ \E t \in Threads : AssignChunkOverlap(t)
    \/ \E t \in Threads : SplitAndBuild(t)

(***************************************************************************)
(* search_similar from the engine query on (lines 140-156): the engine     *)
(* answers collection.query with the n_results nearest records, nearest    *)
(* first, as parallel lists; the code zips them into tuples                *)
(* (id, 1.0 - distance, metadata).  Vectors are over {0, 1} and the        *)
(* distance is the squared L2 distance, the engine's default.              *)
(***************************************************************************)
MaxRecords == 3      \* most records in the collection searched
SearchDim == 2       \* width of the vectors of the collection searched

RecordIdOrder == <<"r1", "r2", "r3", "r4">>
SearchIds == {RecordIdOrder[i] : i \in 1..MaxRecords}
SearchVectors == [1..SearchDim -> {0, 1}]
SearchMetadatas == {[k \in {"source"} |-> 100], [k \in {"source"} |-> 200]}

VARIABLES
    records,             \* the collection searched: id -> [embedding, metadata]
    query_embedding,     \* the query vector
    n_results,           \* k
    results,             \* what collection.query returned
    formatted_results,   \* what search_similar returned
    searchCall           \* "idle" before the query, "returned" after the return

searchVars == <<records, query_embedding, n_results, results, formatted_results, searchCall>>

NoResults == [ids |-> <<>>, distances |-> <<>>, metadatas |-> <<>>]

RECURSIVE SquaredL2(_, _)
SquaredL2(u, v) ==
    IF u = <<>> THEN 0
    ELSE (u[1] - v[1]) * (u[1] - v[1]) + SquaredL2(Tail(u), Tail(v))

Distance(id) == SquaredL2(query_embedding, records[id].embedding)

Min(x, y) == IF x <= y THEN x ELSE y

\* the id lists the engine may answer with: n_results ids (all of them when
\* the collection holds fewer), nearest first, none farther than one left out
NearestFirst ==
    {ids \in UNION {[1..n -> DOMAIN records] : n \in {Min(n_results, Cardinality(DOMAIN records))}} :
        /\ \A i, j \in DOMAIN ids : i # j => ids[i] # ids[j]
        /\ \A i, j \in DOMAIN ids : i < j => Distance(ids[i]) <= Distance(ids[j])
        /\ \A id \in DOMAIN records \ Range(ids) :
              \A i \in DOMAIN ids : Distance(ids[i]) <= Distance(id)}

\* collection.query(query_embeddings=[q], n_results=k,
\*                  include=['distances', 'metadatas']), first query's lists
CollectionQuery(ids) ==
    [ids |-> ids,
     distances |-> [i \in DOMAIN ids |-> Distance(ids[i])],
     metadatas |-> [i \in DOMAIN ids |-> records[ids[i]].metadata]]

\* the tuples with the distance left as it is
FormatResultsDistance(res) ==
    [i \in 1..Min(Len(res.ids), Min(Len(res.distances), Len(res.metadatas))) |->
        <<res.ids[i], res.distances[i], res.metadatas[i]>>]

\* lines 147-154: [(id_, 1.0 - dist, meta) for id_, dist, meta in zip(...)]
FormatResults(res) ==
    [i \in 1..Min(Len(res.ids), Min(Len(res.distances), Len(res.metadatas))) |->
        <<res.ids[i], 1 - res.distances[i], res.metadatas[i]>>]

SearchInit ==
    /\ records \in UNION {[S -> [embedding : SearchVectors, metadata : SearchMetadatas]] :
                             S \in SUBSET SearchIds}
    /\ query_embedding \in SearchVectors
    /\ n_results \in 1..MaxK
    /\ results = NoResults
    /\ formatted_results = <<>>
    /\ searchCall = "idle"

SearchIdle ==
    /\ records = <<>>
    /\ query_embedding = <<>>
    /\ n_results = 1
    /\ results = NoResults
    /\ formatted_results = <<>>
    /\ searchCall = "idle"

QueryAndFormat ==
    /\ searchCall = "idle"
    /\ \E ids \in NearestFirst : results' = CollectionQuery(ids)
    /\ formatted_results' = FormatResults(results')
    /\ searchCall' = "returned"
    /\ UNCHANGED <<records, query_embedding, n_results>>

SearchNext == QueryAndFormat

\* the store before any call, the chunker before construction
StoreIdle ==
    /\ client = None
    /\ collections = EmptyDict
    /\ engine = EmptyDict
    /\ nextCollId = 1
    /\ lastCall = NoArgsCall("__init__")
    /\ result = "ok"
    /\ returned = <<>>

ChunkerIdle ==
    /\ chunker = "new"
    /\ text_splitter = NoSplitter
    /\ add_start_index = FALSE
    /\ ctorArgs = NoArgs
    /\ document = Document(<<>>, NoMetadata, NoId)
    /\ overrides = NoArgs
    /\ chunkResult = "ok"
    /\ chunked_docs = <<>>

vars == <<storeVars, chunkerVars, concVars, searchVars>>

\* the store, driven by any sequence of calls
Init == StoreInit /\ ChunkerIdle /\ ConcIdle /\ SearchIdle

Next == StoreNext /\ UNCHANGED <<chunkerVars, concVars, searchVars>>

Spec == Init /\ [][Next]_vars

\* the chunker, constructed and then called any number of times on a document
ChunkerSpecInit == ChunkerInit /\ StoreIdle /\ ConcIdle /\ SearchIdle

ChunkerSpecNext == ChunkerNext /\ UNCHANGED <<storeVars, concVars, searchVars>>

ChunkerSpec == ChunkerSpecInit /\ [][ChunkerSpecNext]_vars

\* a caller's document, chunked and given more metadata in any order
ProcessorSpecNext == ProcessorNext /\ UNCHANGED <<storeVars, concVars, searchVars>>

ProcessorSpec == ChunkerSpecInit /\ [][ProcessorSpecNext]_vars

\* the split of one document under one configuration
SplitSpecInit == SplitInit /\ StoreIdle /\ ConcIdle /\ SearchIdle

SplitSpecNext == SplitNext /\ UNCHANGED <<storeVars, concVars, searchVars>>

SplitSpec == SplitSpecInit /\ [][SplitSpecNext]_vars

\* one chunker shared by two callers
ConcSpecInit == ChunkerIdle /\ StoreIdle /\ ConcIdle /\ SearchIdle

ConcSpecNext == ConcNext /\ UNCHANGED <<storeVars, searchVars>>

ConcSpec == ConcSpecInit /\ [][ConcSpecNext]_vars

\* one search of one collection
SearchSpecInit == SearchInit /\ StoreIdle /\ ChunkerIdle /\ ConcIdle

SearchSpecNext == SearchNext /\ UNCHANGED <<storeVars, chunkerVars, concVars>>

SearchSpec == SearchSpecInit /\ [][SearchSpecNext]_vars

(***************************************************************************)
(* Properties of the store (checked under Spec).                           *)
(***************************************************************************)
GuardedOps == {"create_collection", "drop_collection", "list_collections",
               "add_to_collection", "search_similar"}

Connected == client # None

\* the dimension of a collection: the width of the embeddings it holds, 0
\* while it holds none
EngineDimension(name) ==
    IF Len(engine[name].records) = 0 THEN 0 ELSE Len(engine[name].records[1].embedding)

\* a batch add_to_collection accepts: n >= 1 chunks, n embeddings, n metadata
\* entries, all embeddings of one width
UniformBatch(call) ==
    /\ Len(call.chunks) >= 1
    /\ Len(call.embeddings) = Len(call.chunks)
    /\ Len(call.metadata) = Len(call.chunks)
    /\ \A i \in DOMAIN call.embeddings : Len(call.embeddings[i]) = Len(call.embeddings[1])

Distinct(seq) == \A i, j \in DOMAIN seq : i # j => seq[i] # seq[j]

\* C1: while the store is not connected, create_collection, drop_collection,
\* list_collections, add_to_collection and search_similar all end with the
\* not-connected error and return nothing.
C1_NotConnectedFails ==
    (client = None /\ lastCall.op \in GuardedOps)
        => (result = "ConnectionError" /\ returned = <<>>)

\* a store that was connected, created a collection and was disconnected
\* refuses a search
C1_Witness ==
    /\ client = None
    /\ nextCollId > 1
    /\ lastCall.op = "search_similar"
    /\ result = "ConnectionError"

\* C2: on a connected store, add_to_collection with n chunks and n embeddings
\* of matching dimension returns n pairwise distinct ids, and search_similar
\* with the exact embedding of a stored record and k >= 1 returns that
\* record's id first.
C2_RoundTrip ==
    /\ (/\ Connected
        /\ lastCall.op = "add_to_collection"
        /\ UniformBatch(lastCall)
        /\ (lastCall.name \in DOMAIN engine
               => EngineDimension(lastCall.name) \in {0, Len(lastCall.embeddings[1])}))
          => (/\ result = "ok"
              /\ Len(returned) = Len(lastCall.chunks)
              /\ Distinct(returned))
    /\ (/\ Connected
        /\ lastCall.op = "search_similar"
        /\ lastCall.name \in DOMAIN engine
        /\ \E i \in DOMAIN engine[lastCall.name].records :
              engine[lastCall.name].records[i].embedding = lastCall.query)
          => (/\ result = "ok"
              /\ Len(returned) >= 1
              /\ \E i \in DOMAIN engine[lastCall.name].records :
                    /\ engine[lastCall.name].records[i].embedding = lastCall.query
                    /\ returned[1][1] = engine[lastCall.name].records[i].id)

\* C5: on a connected store, add_to_collection with chunks, embeddings and
\* metadata of different lengths ends with the validation error and leaves
\* the records of the collection as they were.
LengthMismatch(call) ==
    Len(call.chunks) # Len(call.embeddings) \/ Len(call.chunks) # Len(call.metadata)

RecordCount(e, name) == IF name \in DOMAIN e THEN Len(e[name].records) ELSE 0

C5_LengthMismatchRejected ==
    [][(/\ Connected
        /\ lastCall'.op = "add_to_collection"
        /\ LengthMismatch(lastCall'))
          => (/\ result' = "ValueError"
              /\ RecordCount(engine', lastCall'.name) = RecordCount(engine, lastCall'.name))]_vars

\* C6: on a connected store, search_similar on a collection with a recorded
\* dimension, with a query of another width, ends with the dimension-mismatch
\* error (the ValueError of the width test) and returns nothing.
C6_WrongWidthRejected ==
    (/\ Connected
     /\ lastCall.op = "search_similar"
     /\ lastCall.name \in DOMAIN engine
     /\ EngineDimension(lastCall.name) # 0
     /\ Len(lastCall.query) # EngineDimension(lastCall.name))
        => (result = "ValueError" /\ returned = <<>>)

\* C7: after add_to_collection was called on a connected store with a batch of
\* one width, the collection has a recorded dimension, and the call succeeded
\* exactly when the batch has that width: the first write records its width,
\* a later write of another width is rejected.
C7_FirstWriteSetsDimension ==
    (/\ Connected
     /\ lastCall.op = "add_to_collection"
     /\ UniformBatch(lastCall))
        => (/\ lastCall.name \in DOMAIN engine
            /\ EngineDimension(lastCall.name) # 0
            /\ (result = "ok" <=> EngineDimension(lastCall.name) = Len(lastCall.embeddings[1])))

\* C8: create_collection on a connected store for a name that already exists
\* returns without error, the name is listed once, and the collections and
\* their records are as before.
C8_CreateIdempotent ==
    [][(/\ Connected
        /\ lastCall'.op = "create_collection"
        /\ lastCall'.name \in DOMAIN engine)
          => (/\ result' = "ok"
              /\ engine' = engine
              /\ Cardinality({i \in DOMAIN EngineListCollections' :
                                 EngineListCollections'[i] = lastCall'.name}) = 1)]_vars

\* create_collection returned normally on a collection that holds a record
\* (so one that existed before the call)
C8_Witness ==
    /\ Connected
    /\ lastCall.op = "create_collection"
    /\ result = "ok"
    /\ lastCall.name \in DOMAIN engine
    /\ Len(engine[lastCall.name].records) > 0

\* C9: after a successful drop_collection the name is not listed and has no
\* cached handle, and no cached handle ever refers to a collection other than
\* the one the engine now holds under that name.
C9_DropEvicts ==
    /\ (lastCall.op = "drop_collection" /\ result = "ok")
          => (/\ lastCall.name \notin Range(EngineListCollections)
              /\ lastCall.name \notin DOMAIN collections)
    /\ \A name \in DOMAIN collections :
          name \in DOMAIN engine => collections[name].id = engine[name].id

\* a collection created (and cached) in this run was dropped
C9_Witness ==
    /\ lastCall.op = "drop_collection"
    /\ result = "ok"
    /\ nextCollId > 1
    /\ lastCall.name \notin DOMAIN engine

\* C10: drop_collection on a connected store that has no collection of that
\* name ends with an engine error, and the collections and the cache are as
\* before.
C10_DropMissingFails ==
    [][(/\ Connected
        /\ lastCall'.op = "drop_collection"
        /\ lastCall'.name \notin DOMAIN engine)
          => (/\ result' = "EngineError"
              /\ engine' = engine
              /\ collections' = collections)]_vars

C10_Witness ==
    /\ Connected
    /\ lastCall.op = "drop_collection"
    /\ result = "EngineError"
    /\ DOMAIN collections # {}

\* C11: disconnect leaves no client and no cached handle (the connector
\* keeps no other per-collection record), and a connect that follows a
\* disconnect gives the cached state of a freshly constructed, freshly
\* connected store: the client and an empty cache.
C11_DisconnectResets ==
    [][/\ (lastCall'.op = "disconnect")
            => (client' = None /\ collections' = EmptyDict)
       /\ (lastCall.op = "disconnect" /\ lastCall'.op = "connect" /\ result' = "ok")
            => (client' = Client /\ collections' = EmptyDict)]_vars

\* connected again, with a collection this run created (and cached) still in
\* the engine and no longer cached
C11_Witness ==
    /\ lastCall.op = "connect"
    /\ result = "ok"
    /\ collections = EmptyDict
    /\ \E name \in DOMAIN engine : engine[name].id >= 1

\* C20: every name with a cached handle names a collection the engine holds,
\* and the cache is empty while the store is not connected.
C20_CacheWithinEngine ==
    /\ DOMAIN collections \subseteq DOMAIN engine
    /\ (client = None => DOMAIN collections = {})

\* after a failed call, one collection is cached while another exists uncached
C20_Witness ==
    /\ Connected
    /\ result # "ok"
    /\ DOMAIN collections # {}
    /\ DOMAIN collections # DOMAIN engine

(***************************************************************************)
(* Properties of the chunker (checked under ChunkerSpec).                  *)
(***************************************************************************)
OverrideAssigned ==
    text_splitter.chunk_size # NoInt \/ text_splitter.chunk_overlap # NoInt

\* what a chunker just constructed with ctorArgs returns for the document
DefaultChunks ==
    ChunkedDocs(CharacterTextSplitter(text_splitter._separator, ctorArgs.chunk_size,
                                      ctorArgs.chunk_overlap),
                document, add_start_index)

C4_ChunkIndexes ==
    \A j \in DOMAIN chunked_docs :
        /\ chunked_docs[j].metadata["total_chunks"] = Len(chunked_docs)
        /\ chunked_docs[j].metadata["chunk_index"] = j - 1

\* three chunks of a document whose own metadata has a chunk_index entry
C4_Witness ==
    /\ Len(chunked_docs) >= 3
    /\ "chunk_index" \in DOMAIN document.metadata

\* the configuration a create_chunks call asks for: its overrides, and the
\* constructor's arguments where it passes none
EffectiveChunkSize(args) ==
    IF args.chunk_size # NoInt THEN args.chunk_size ELSE ctorArgs.chunk_size

EffectiveChunkOverlap(args) ==
    IF args.chunk_overlap # NoInt THEN args.chunk_overlap ELSE ctorArgs.chunk_overlap

InvalidConfiguration(size, overlap) == overlap >= size \/ size <= 0

\* C12: a configuration with chunk_overlap >= chunk_size, or chunk_size <= 0,
\* is rejected: given to the constructor, no chunker results; given as
\* overrides to create_chunks, the call fails and returns no chunks.
C12_InvalidConfigurationRejected ==
    /\ (ctorArgs # NoArgs /\ InvalidConfiguration(ctorArgs.chunk_size, ctorArgs.chunk_overlap))
          => chunker = "failed"
    /\ (/\ chunker = "ready"
        /\ overrides # NoArgs
        /\ InvalidConfiguration(EffectiveChunkSize(overrides), EffectiveChunkOverlap(overrides)))
          => (chunkResult = "ValueError" /\ chunked_docs = <<>>)

(***************************************************************************)
(* Properties of the split (checked under SplitSpec).                      *)
(***************************************************************************)
\* a step of create_chunks: the chunker is ready before and after it
CreateChunksStep == chunker = "ready" /\ chunker' = "ready"

\* the separator-delimited, non-empty segments of a text
Segments(text) == SplitTextWithRegex(text, text_splitter._separator)

ChunkTexts(docs) == [j \in DOMAIN docs |-> docs[j].content]

\* every text of chunks is no longer than size or is one of the oversize
\* segments, and every oversize segment is one of the texts
WithinSizeOrWhole(chunks, segments, size) ==
    /\ \A j \in DOMAIN chunks :
          \/ Len(chunks[j]) <= size
          \/ \E i \in DOMAIN segments : Len(segments[i]) > size /\ chunks[j] = segments[i]
    /\ \A i \in DOMAIN segments :
          Len(segments[i]) > size => \E j \in DOMAIN chunks : chunks[j] = segments[i]

Stripped(segments) == [i \in DOMAIN segments |-> Strip(segments[i])]

NonEmpty(texts) == SelectSeq(texts, LAMBDA t : t # <<>>)

\* C13 as claimed: every chunk is at most chunk_size long, except a chunk that
\* is exactly one segment longer than chunk_size, and every such segment is
\* returned whole as a chunk.
C13_SizeBoundOrWholeSegment ==
    [][CreateChunksStep
          => WithinSizeOrWhole(ChunkTexts(chunked_docs'), Segments(document.content),
                               text_splitter._chunk_size)]_vars

\* C13 as amended: the same, where an oversize segment is returned with its
\* leading and trailing whitespace stripped (and not at all when it is
\* whitespace only); it is never cut inside and never merged with a neighbour.
C13_SizeBoundOrStrippedSegment ==
    [][CreateChunksStep
          => WithinSizeOrWhole(ChunkTexts(chunked_docs'),
                               NonEmpty(Stripped(Segments(document.content))),
                               text_splitter._chunk_size)]_vars

\* a chunk longer than chunk_size was returned next to another chunk
C13_Witness ==
    /\ chunker = "ready"
    /\ Len(chunked_docs) >= 2
    /\ \E j \in DOMAIN chunked_docs : Len(chunked_docs[j].content) > text_splitter._chunk_size

\* the scenario: "AAAA\n\nBBBB\n\nCCCC", separator "\n\n", chunk_size 9, chunk_overlap 0
ScenarioSplit ==
    /\ document.content = ScenarioContent
    /\ text_splitter._separator = <<NL, NL>>
    /\ text_splitter._chunk_size = 9
    /\ text_splitter._chunk_overlap = 0

ChunkIndexes(docs) == [j \in DOMAIN docs |-> docs[j].metadata["chunk_index"]]
TotalChunks(docs) == [j \in DOMAIN docs |-> docs[j].metadata["total_chunks"]]

\* C14 as claimed: the scenario yields the two chunks "AAAA\n\nBBBB" and
\* "CCCC", with chunk_index 0 and 1 and total_chunks 2.
C14_ScenarioTwoChunks ==
    [][(CreateChunksStep /\ ScenarioSplit)
          => (/\ ChunkTexts(chunked_docs') =
                    <<<<"A", "A", "A", "A", NL, NL, "B", "B", "B", "B">>, <<"C", "C", "C", "C">>>>
              /\ ChunkIndexes(chunked_docs') = <<0, 1>>
              /\ TotalChunks(chunked_docs') = <<2, 2>>)]_vars

\* C14 as amended: "AAAA\n\nBBBB" is 10 long, over chunk_size 9, so the
\* scenario yields the three chunks "AAAA", "BBBB" and "CCCC", with
\* chunk_index 0, 1 and 2 and total_chunks 3.
C14_ScenarioThreeChunks ==
    [][(CreateChunksStep /\ ScenarioSplit)
          => (/\ ChunkTexts(chunked_docs') =
                    <<<<"A", "A", "A", "A">>, <<"B", "B", "B", "B">>, <<"C", "C", "C", "C">>>>
              /\ ChunkIndexes(chunked_docs') = <<0, 1, 2>>
              /\ TotalChunks(chunked_docs') = <<3, 3, 3>>)]_vars

\* the scenario has been split
C14_Witness ==
    /\ chunker = "ready"
    /\ ScenarioSplit
    /\ chunked_docs # <<>>

\* the chunk texts joined in chunk_index order, the separator between them
Rejoined(docs) == Join(ChunkTexts(docs), text_splitter._separator)

\* C15 as claimed: with chunk_overlap 0, the non-empty segments of the
\* rejoined chunk texts are the non-empty segments of the content: none lost,
\* duplicated or reordered.
C15_RejoinedSegments ==
    [][(CreateChunksStep /\ text_splitter._chunk_overlap = 0)
          => Segments(Rejoined(chunked_docs')) = Segments(document.content)]_vars

\* C15 as amended: the same up to whitespace at the ends of a segment: the
\* segments of both, each stripped and the empty ones dropped, are equal.
C15_RejoinedStrippedSegments ==
    [][(CreateChunksStep /\ text_splitter._chunk_overlap = 0)
          => NonEmpty(Stripped(Segments(Rejoined(chunked_docs')))) =
                NonEmpty(Stripped(Segments(document.content)))]_vars

\* a document of several chunks, one of whose segments starts or ends with
\* whitespace, was split with chunk_overlap 0
C15_Witness ==
    /\ chunker = "ready"
    /\ text_splitter._chunk_overlap = 0
    /\ Len(chunked_docs) >= 2
    /\ Stripped(Segments(document.content)) # Segments(document.content)

\* o is the offset of the first occurrence of text in content
FirstOffset(content, text, o) ==
    /\ 0 <= o
    /\ o + Len(text) <= Len(content)
    /\ SubSeq(content, o + 1, o + Len(text)) = text
    /\ \A p \in 0..(o - 1) : SubSeq(content, p + 1, p + Len(text)) # text

\* C16: with add_start_index, every chunk carries a chunk_start_index that is
\* the offset of the first occurrence of its text in the parent content.
C16_StartIndexIsOffset ==
    [][(CreateChunksStep /\ add_start_index)
          => \A j \in DOMAIN chunked_docs' :
                /\ "chunk_start_index" \in DOMAIN chunked_docs'[j].metadata
                /\ FirstOffset(document.content, chunked_docs'[j].content,
                               chunked_docs'[j].metadata["chunk_start_index"])]_vars

(***************************************************************************)
(* Properties of the documents (checked under ProcessorSpec).              *)
(***************************************************************************)
\* C17: no call (create_chunks, add_metadata) changes the content, the
\* metadata or the doc_id of the Document the caller passed in.
C17_InputDocumentUnchanged ==
    [][/\ document'.content = document.content
       /\ document'.metadata = document.metadata
       /\ document'.doc_id = document.doc_id]_vars

(***************************************************************************)
(* Properties of concurrent create_chunks calls (checked under ConcSpec).  *)
(***************************************************************************)
\* the chunker a call would split with under its own effective configuration
OwnSplitter(call) ==
    CharacterTextSplitter(text_splitter._separator,
                          EffectiveChunkSize(call), EffectiveChunkOverlap(call))

\* C18: under every interleaving of two create_chunks calls on one chunker,
\* each finished call has split its document with its own effective
\* configuration (its overrides, the constructor's values where it gave none).
C18_OwnConfiguration ==
    \A t \in Threads :
        (/\ calls[t].pc = "done"
         /\ EffectiveChunkOverlap(calls[t]) <= EffectiveChunkSize(calls[t]))
        => calls[t].chunked_docs =
              ChunkedDocs(OwnSplitter(calls[t]), calls[t].document, add_start_index)

====
